---------------------------- MODULE Spec2Model ----------------------------
(***************************************************************************)
(* Home-tour survey: the scoring helpers (normalizeScore,                  *)
(* computeOverallScore, computeSectionScores, buildSummary) and the        *)
(* submission pipeline of IndexPage (the Submit handlers,                  *)
(* generateClientPdf, downloadBase64Pdf and the /api/send-form-email       *)
(* handler), modelled from src/components/ui/button.jsx and                *)
(* src/pages/api/send-form-email.js.                                       *)
(*                                                                         *)
(* Scores are numbers with one decimal; the model holds a score s as the   *)
(* integer 10*s (29 stands for 2.9).  normalizeScore results are whole     *)
(* numbers and are held as they are.                                       *)
(***************************************************************************)
EXTENDS Integers, Sequences, FiniteSets, TLC

(***************************************************************************)
(* Bounds of the model.                                                    *)
(***************************************************************************)
\* how many fields of an input record are changed after Init (scoring)
MaxEdits == 1
\* how many submission attempts one session makes (pipeline)
MaxAttempts == 2

(***************************************************************************)
(* JavaScript values of a rating field.  A rating is 0..5; Null stands for *)
(* null, undefined and an absent property (value == null), NaN for NaN.    *)
(***************************************************************************)
Null == -1
NaN == -2
RawValues == {Null, NaN} \cup (0..5)

(***************************************************************************)
(* Scoring configuration.                                                  *)
(***************************************************************************)
\* NEGATIVE_HIGH_FIELDS naming a field that is no rating field
NEGATIVE_HIGH_FIELDS_WithNotes == {"bedroomNoise", "livingIssues"}

NEGATIVE_HIGH_FIELDS ==
    { "livingWallsCeiling", "livingWindowsDoors", "livingFloors",
      "kitchenCabinetsCountertop", "kitchenSinkFaucets", "kitchenVentilation",
      "bathroomWaterPressure",
      "bedroomNoise",
      "surroundingsNoiseLevel", "surroundingsNeighborhood" }

RATING_FIELDS ==
    << "firstWelcomeRating", "firstEntranceRating", "livingComfortRating",
       "kitchenOverallRating", "bathroomOverallRating", "bedroomCozyRating",
       "surroundingsLeisureRating",
       "livingWallsCeiling", "livingWindowsDoors", "livingFloors",
       "kitchenCabinetsCountertop", "kitchenSinkFaucets", "kitchenVentilation",
       "bathroomTilesGrout", "bathroomWaterPressure", "bathroomVentilation",
       "bedroomDaylight", "bedroomNoise",
       "surroundingsNoiseLevel", "surroundingsNeighborhood",
       "finalConfidence" >>

sectionFieldMap ==
    << [section |-> "First Impressions",
        fields |-> << "firstWelcomeRating", "firstEntranceRating" >>],
       [section |-> "Living",
        fields |-> << "livingComfortRating", "livingWallsCeiling",
                      "livingWindowsDoors", "livingFloors" >>],
       [section |-> "Kitchen",
        fields |-> << "kitchenOverallRating", "kitchenCabinetsCountertop",
                      "kitchenSinkFaucets", "kitchenVentilation" >>],
       [section |-> "Bathroom",
        fields |-> << "bathroomOverallRating", "bathroomTilesGrout",
                      "bathroomWaterPressure", "bathroomVentilation" >>],
       [section |-> "Bedroom",
        fields |-> << "bedroomCozyRating", "bedroomDaylight", "bedroomNoise" >>],
       [section |-> "Surroundings",
        fields |-> << "surroundingsLeisureRating", "surroundingsNoiseLevel",
                      "surroundingsNeighborhood" >>],
       [section |-> "Final Thoughts",
        fields |-> << "finalConfidence" >>] >>

RatingFieldSet == { RATING_FIELDS[i] : i \in DOMAIN RATING_FIELDS }

(***************************************************************************)
(* data?.[f]: the value of property f, undefined (Null) when absent.       *)
(***************************************************************************)
Get(data, f) == IF f \in DOMAIN data THEN data[f] ELSE Null

(***************************************************************************)
(* normalizeScore(field, value)                                            *)
(***************************************************************************)
\* normalizeScore that never inverts a negative-high field
normalizeScore_NeverInverts(field, value) ==
    IF value = Null \/ value = NaN THEN Null ELSE value

\* normalizeScore that inverts on a 0..5 scale: 5 - value
normalizeScore_ZeroBased(field, value) ==
    IF value = Null \/ value = NaN
    THEN Null
    ELSE IF field \in NEGATIVE_HIGH_FIELDS THEN 5 - value ELSE value

normalizeScore(field, value) ==
    IF value = Null \/ value = NaN
    THEN Null
    ELSE IF field \in NEGATIVE_HIGH_FIELDS THEN 6 - value ELSE value

\* fields.map((f) => normalizeScore(f, data?.[f])).filter((v) => typeof v === "number")
RECURSIVE NormalizedVals(_, _)
NormalizedVals(fields, data) ==
    IF fields = << >>
    THEN << >>
    ELSE LET v == normalizeScore(Head(fields), Get(data, Head(fields)))
         IN  (IF v = Null THEN << >> ELSE << v >>)
                \o NormalizedVals(Tail(fields), data)

\* vals.reduce((a, b) => a + b, 0)
RECURSIVE SumSeq(_)
SumSeq(vals) == IF vals = << >> THEN 0 ELSE Head(vals) + SumSeq(Tail(vals))

\* RoundedMean that truncates instead of rounding
RoundedMean_Truncated(vals) == (10 * SumSeq(vals)) \div Len(vals)

\* Math.round((sum / n) * 10) / 10, in tenths: floor(10*sum/n + 1/2)
RoundedMean(vals) == (20 * SumSeq(vals) + Len(vals)) \div (2 * Len(vals))

(***************************************************************************)
(* computeOverallScore(data), in tenths                                    *)
(***************************************************************************)
computeOverallScore(data) ==
    LET vals == NormalizedVals(RATING_FIELDS, data)
    IN  IF Len(vals) = 0 THEN 0 ELSE RoundedMean(vals)

(***************************************************************************)
(* computeSectionScores(data): one {section, score} per entry of           *)
(* sectionFieldMap, in its order; score in tenths                          *)
(***************************************************************************)
SectionScore(fields, data) ==
    LET vals == NormalizedVals(fields, data)
    IN  IF Len(vals) # 0 THEN RoundedMean(vals) ELSE 0

computeSectionScores(data) ==
    [ i \in DOMAIN sectionFieldMap |->
        [section |-> sectionFieldMap[i].section,
         score |-> SectionScore(sectionFieldMap[i].fields, data)] ]

(***************************************************************************)
(* buildSummary(data)                                                      *)
(***************************************************************************)
\* Array.prototype.sort((a, b) => a.score - b.score): ascending and stable
RECURSIVE InsertByScore(_, _)
InsertByScore(sorted, x) ==
    IF sorted = << >>
    THEN << x >>
    ELSE IF Head(sorted).score - x.score > 0
         THEN << x >> \o sorted
         ELSE << Head(sorted) >> \o InsertByScore(Tail(sorted), x)

RECURSIVE SortByScore(_)
SortByScore(arr) ==
    IF arr = << >>
    THEN << >>
    ELSE InsertByScore(SortByScore(SubSeq(arr, 1, Len(arr) - 1)), arr[Len(arr)])

\* FilterPositive that keeps the sections whose score is 0
FilterPositive_KeepsZero(arr) == arr

\* arr.filter((s) => s.score > 0)
RECURSIVE FilterPositive(_)
FilterPositive(arr) ==
    IF arr = << >>
    THEN << >>
    ELSE (IF Head(arr).score > 0 THEN << Head(arr) >> ELSE << >>)
            \o FilterPositive(Tail(arr))

\* arr.slice(0, 2) and arr.slice(-2)
SliceFirstTwo(arr) == SubSeq(arr, 1, IF Len(arr) < 2 THEN Len(arr) ELSE 2)
SliceLastTwo(arr) == SubSeq(arr, IF Len(arr) < 2 THEN 1 ELSE Len(arr) - 1, Len(arr))

\* arr.map((s) => s.section)
SectionNames(arr) == [ i \in DOMAIN arr |-> arr[i].section ]

\* a sentence of the summary; kind "empty" is the empty string
Sentence(kind, score, names) == [kind |-> kind, score |-> score, names |-> names]

\* FilterBoolean that keeps the empty sentences
FilterBoolean_KeepsAll(sentences) == sentences

\* [s1, s2, s3].filter(Boolean)
RECURSIVE FilterBoolean(_)
FilterBoolean(sentences) ==
    IF sentences = << >>
    THEN << >>
    ELSE (IF Head(sentences).kind # "empty" THEN << Head(sentences) >> ELSE << >>)
            \o FilterBoolean(Tail(sentences))

\* AfterBuildSummary when buildSummary sorted the caller's array in place
AfterBuildSummary_SharedArray(arr, data) == SortByScore(arr)

\* an array that an earlier computeSectionScores(data) call returned, as it is after
\* buildSummary(data) ran: `.sort` reorders in place the array of buildSummary's own
\* computeSectionScores call, which is a new array on every call
AfterBuildSummary(arr, data) == arr

buildSummary(data) ==
    LET overall   == computeOverallScore(data)
        sections  == SortByScore(computeSectionScores(data))
        watchouts == SectionNames(SliceFirstTwo(FilterPositive(sections)))
        strengths == SectionNames(SliceLastTwo(FilterPositive(sections)))
        s1 == Sentence("overall", overall, << >>)
        s2 == IF Len(strengths) # 0 THEN Sentence("strong", 0, strengths)
                                    ELSE Sentence("empty", 0, << >>)
        s3 == IF Len(watchouts) # 0 THEN Sentence("watch", 0, watchouts)
                                    ELSE Sentence("empty", 0, << >>)
    IN  [overall |-> overall, watchouts |-> watchouts, strengths |-> strengths,
         sentences |-> FilterBoolean(<< s1, s2, s3 >>)]

(***************************************************************************)
(* Survey records.                                                         *)
(***************************************************************************)
\* every rating field holds v
Uniform(v) == [ f \in RatingFieldSet |-> v ]

\* the record IndexPage creates: every rating field is 0
InitialFormData == Uniform(0)

\* a record without any rating property
EmptyRecord == [ f \in {} |-> 0 ]

\* the record of the documented example: two answered fields, the rest absent
ExampleRecord ==
    [ f \in {"firstWelcomeRating", "bathroomWaterPressure"} |-> 5 ]

\* every field answered at the favourable end of its scale, and at the unfavourable
BestRecord  == [ f \in RatingFieldSet |-> IF f \in NEGATIVE_HIGH_FIELDS THEN 1 ELSE 5 ]
WorstRecord == [ f \in RatingFieldSet |-> IF f \in NEGATIVE_HIGH_FIELDS THEN 5 ELSE 1 ]

\* {...data, [f]: v}
WithField(data, f, v) ==
    [ g \in (DOMAIN data) \cup {f} |-> IF g = f THEN v ELSE data[g] ]

\* the records the scoring functions are applied to, before edits
ScoreInputs ==
    {EmptyRecord, ExampleRecord, BestRecord, WorstRecord} \cup { Uniform(v) : v \in RawValues }

(***************************************************************************)
(* State.                                                                  *)
(***************************************************************************)
VARIABLES
    data,           \* formData: the rating fields of the survey record
    edits,          \* how many fields of data were changed since Init
    scored,         \* << >>, or the one result of applying the scoring helpers
    step,           \* useState(0): the wizard step, 0..10
    navMode,        \* useState("swipe"): "swipe" | "buttons"
    contactFilled,  \* formData.email and formData.address are both non-empty
    savedLocally,   \* useState(false)
    isSending,      \* useState(false)
    sendStatus,     \* useState("")
    overlay,        \* the white full-screen overlay of generateClientPdf is in the document
    pc,             \* where the running Submit handler waits: idle | gen | primary | fetch | json
    variant,        \* which Submit button started the attempt: desktop | mobile
    clientPdf,      \* what generateClientPdf returned to the handler
    meta,           \* << >>, or << {overallScore, summary} >> computed by the handler
    requests,       \* the bodies POSTed to /api/send-form-email by the current attempt
    response,       \* the secondary response of the current attempt (NoResponse: none yet)
    downloads,      \* the (base64, filename) pairs the current attempt gave downloadBase64Pdf
    inflight,       \* the external calls in progress
    log,            \* the external-call events of the current attempt, in order
    savedSet,       \* the current attempt called setSavedLocally(true)
    attempts,       \* the number of attempts started
    outcome,        \* how the last attempt ended: none | pending | DELIVERED | LOCAL_DOWNLOAD |
                    \*                             SAVED_LOCALLY_FLAG | THROWN
    args,           \* the arguments a helper function is called with, outside an attempt
    returned        \* << >>, or what the helper call on args did and returned

scoreVars == << data, edits, scored >>
helperVars == << args, returned >>
navVars   == << step, navMode, contactFilled >>
pipeVars  == << savedLocally, isSending, sendStatus, overlay, pc, variant, clientPdf, meta,
                requests, response, downloads, inflight, log, savedSet, attempts, outcome >>
vars      == << data, edits, scored, step, navMode, contactFilled, savedLocally, isSending,
                sendStatus, overlay, pc, variant, clientPdf, meta, requests, response,
                downloads, inflight, log, savedSet, attempts, outcome, args, returned >>

(***************************************************************************)
(* Values of the pipeline.                                                 *)
(***************************************************************************)
\* a missing string: null, undefined or an absent property
NoValue == "null"

\* `Home-Tour-Notes_${address}_${dateStr}.pdf` after the replace, and the default name
NamedFile   == "Home-Tour-Notes_<address>_<date>.pdf"
DefaultFile == "Home-Tour-Notes.pdf"

\* generateClientPdf's results: null, { pdfBase64, filename }, or a rejection
NoPdf         == [pdfBase64 |-> NoValue, filename |-> NoValue]
ClientPayload == [pdfBase64 |-> "clientPdf", filename |-> NamedFile]
Thrown        == [pdfBase64 |-> "thrown", filename |-> NoValue]

\* a response body that is no JSON (res.json() rejects), and no response at all
NotJson    == [status |-> 0, success |-> FALSE, pdfBase64 |-> "not-json", filename |-> NoValue]
NoResponse == [status |-> 0, success |-> FALSE, pdfBase64 |-> "no-response", filename |-> NoValue]

\* the records a session starts with: the created form, and filled-in forms
FormInputs == { InitialFormData, Uniform(5),
                WithField(WithField(InitialFormData, "firstWelcomeRating", 4),
                          "bedroomNoise", 2) }

(***************************************************************************)
(* Init: IndexPage's useState values.                                      *)
(***************************************************************************)
PipeInit ==
    /\ savedLocally = FALSE
    /\ isSending = FALSE
    /\ sendStatus = ""
    /\ overlay = FALSE
    /\ pc = "idle"
    /\ variant = "desktop"
    /\ clientPdf = NoPdf
    /\ meta = << >>
    /\ requests = << >>
    /\ response = NoResponse
    /\ downloads = << >>
    /\ inflight = {}
    /\ log = << >>
    /\ savedSet = FALSE
    /\ attempts = 0
    /\ outcome = "none"

NavInit ==
    /\ step = 0
    /\ navMode = "swipe"
    /\ contactFilled = FALSE

\* no helper call under study
HelperInit ==
    /\ args = << >>
    /\ returned = << >>

Init ==
    /\ data \in FormInputs
    /\ edits = 0
    /\ scored = << >>
    /\ NavInit
    /\ PipeInit
    /\ HelperInit

(***************************************************************************)
(* /api/send-form-email: handler(req, res).  env names what the handler's  *)
(* own external calls do: render and rerender whether pdf(...).toBuffer()  *)
(* resolves in the try and in the catch, send what resend.emails.send      *)
(* does (ok | error | throw).                                              *)
(***************************************************************************)
ServerEnvs == [render : BOOLEAN, send : {"ok", "error", "throw"}, rerender : BOOLEAN]

\* data?.[k] of the request body
BodyGet(body, k) == IF k \in DOMAIN body THEN body[k] ELSE NoValue

Reply(status, success, pdfBase64, filename) ==
    [status |-> status, success |-> success, pdfBase64 |-> pdfBase64, filename |-> filename]

\* the catch block: rebuild or accept the PDF, answer 500
handlerCatch(body, env) ==
    LET pdfBase64 ==
            IF BodyGet(body, "clientPdfBase64") # NoValue
            THEN BodyGet(body, "clientPdfBase64")
            ELSE IF env.rerender THEN "serverPdf" ELSE NoValue
    IN  Reply(500, FALSE, pdfBase64, NamedFile)

\* handler that answers 200 without looking at sendResult.error
handler_IgnoresSendError(method, body, env) ==
    IF method # "POST"
    THEN Reply(405, FALSE, NoValue, NoValue)
    ELSE IF (BodyGet(body, "clientPdfBase64") = NoValue /\ ~env.render) \/ env.send = "throw"
         THEN handlerCatch(body, env)
         ELSE Reply(200, TRUE, NoValue, NoValue)

handler(method, body, env) ==
    IF method # "POST"
    THEN Reply(405, FALSE, NoValue, NoValue)
    ELSE LET hasClientPdf == BodyGet(body, "clientPdfBase64") # NoValue
             filename == IF BodyGet(body, "clientPdfFilename") # NoValue
                         THEN BodyGet(body, "clientPdfFilename")
                         ELSE NamedFile
             pdfBase64 == IF hasClientPdf THEN BodyGet(body, "clientPdfBase64")
                                          ELSE "serverPdf"
         IN  IF ~hasClientPdf /\ ~env.render
             THEN handlerCatch(body, env)
             ELSE IF env.send = "throw"
                  THEN handlerCatch(body, env)
                  ELSE IF env.send = "error"
                       THEN Reply(500, FALSE, pdfBase64, filename)
                       ELSE Reply(200, TRUE, NoValue, NoValue)

\* the attachment of the handler's resend.emails.send call; NoPdf when the handler
\* returns or throws before the call
sentAttachment(method, body, env) ==
    IF method # "POST"
    THEN NoPdf
    ELSE IF BodyGet(body, "clientPdfBase64") # NoValue
    THEN [pdfBase64 |-> BodyGet(body, "clientPdfBase64"),
          filename |-> IF BodyGet(body, "clientPdfFilename") # NoValue
                       THEN BodyGet(body, "clientPdfFilename") ELSE NamedFile]
    ELSE IF env.render
    THEN [pdfBase64 |-> "serverPdf",
          filename |-> IF BodyGet(body, "clientPdfFilename") # NoValue
                       THEN BodyGet(body, "clientPdfFilename") ELSE NamedFile]
    ELSE NoPdf

(***************************************************************************)
(* generateClientPdf(data, summary, currentStep, setStep).  depsOk: the    *)
(* dynamic imports resolve; jsPdfOk: new jsPDF(...) returns; capturesOk:   *)
(* every html2canvas capture and doc.output succeed.                       *)
(***************************************************************************)
\* createPrintContainer is declared inside downloadBase64Pdf's body, so the name
\* does not resolve in generateClientPdf: the call throws a ReferenceError
createPrintContainerInScope == FALSE

generateClientPdf(depsOk, jsPdfOk, capturesOk) ==
    IF ~depsOk THEN NoPdf                       \* catch of the imports: return null
    ELSE IF ~jsPdfOk THEN Thrown                \* outside any try: the promise rejects
    ELSE IF ~createPrintContainerInScope THEN NoPdf   \* catch (e): return null
    ELSE IF ~capturesOk THEN NoPdf              \* catch (e): return null
    ELSE ClientPayload

\* the overlay once generateClientPdf has settled: appended after the imports,
\* removed by the finally of the try that new jsPDF(...) precedes
overlayAfter(depsOk, jsPdfOk) == depsOk /\ ~jsPdfOk

\* the step once generateClientPdf has settled: setStep(prev) in the try and in
\* its catch, prev being the step the handler's render saw (9)
stepAfter(depsOk, jsPdfOk, current) == IF depsOk /\ jsPdfOk THEN 9 ELSE current

(***************************************************************************)
(* The Submit handlers (desktop and mobile: the same code).                *)
(***************************************************************************)
\* Body with the two client-PDF properties always written
Body_WithPdfKeys(record, m, pdf) ==
    [record |-> record, meta |-> m,
     clientPdfBase64 |-> pdf.pdfBase64, clientPdfFilename |-> pdf.filename]

\* payload = { ...formData, meta: { overallScore, summary } [, clientPdfBase64,
\* clientPdfFilename] }; the spread record is held under "record"
Body(record, m, pdf) ==
    IF pdf # NoPdf
    THEN [record |-> record, meta |-> m,
          clientPdfBase64 |-> pdf.pdfBase64, clientPdfFilename |-> pdf.filename]
    ELSE [record |-> record, meta |-> m]

\* Submit whose button lacks disabled={isSending}
Submit_Unguarded(v) ==
    /\ step = 9
    /\ attempts < MaxAttempts
    /\ isSending' = TRUE
    /\ sendStatus' = "Generating PDF"
    /\ meta' = << [overallScore |-> computeOverallScore(data),
                   summary |-> buildSummary(data)] >>
    /\ pc' = "gen"
    /\ variant' = v
    /\ clientPdf' = NoPdf
    /\ requests' = << >>
    /\ response' = NoResponse
    /\ downloads' = << >>
    /\ inflight' = {"generateClientPdf"}
    /\ log' = << "gen.start" >>
    /\ savedSet' = FALSE
    /\ attempts' = attempts + 1
    /\ outcome' = "pending"
    /\ UNCHANGED << helperVars, scoreVars, navVars, savedLocally, overlay >>

\* onClick up to `await generateClientPdf(...)`
Submit(v) ==
    /\ step = 9
    /\ ~isSending
    /\ attempts < MaxAttempts
    /\ isSending' = TRUE
    /\ sendStatus' = "Generating PDF"
    /\ meta' = << [overallScore |-> computeOverallScore(data),
                   summary |-> buildSummary(data)] >>
    /\ pc' = "gen"
    /\ variant' = v
    /\ clientPdf' = NoPdf
    /\ requests' = << >>
    /\ response' = NoResponse
    /\ downloads' = << >>
    /\ inflight' = {"generateClientPdf"}
    /\ log' = << "gen.start" >>
    /\ savedSet' = FALSE
    /\ attempts' = attempts + 1
    /\ outcome' = "pending"
    /\ UNCHANGED << helperVars, scoreVars, navVars, savedLocally, overlay >>

\* SubmitCatch whose catch block does not call setSavedLocally(true)
SubmitCatch_NoFlag(st, ov) ==
    /\ isSending' = FALSE
    /\ sendStatus' = ""
    /\ pc' = "idle"
    /\ inflight' = {}
    /\ log' = log \o << "gen.throw" >>
    /\ outcome' = "THROWN"
    /\ step' = st
    /\ overlay' = ov
    /\ UNCHANGED << helperVars, scoreVars, navMode, contactFilled, savedLocally, savedSet,
                    variant, clientPdf, meta, requests, response, downloads, attempts >>

\* catch (err) { setSavedLocally(true) } finally { setIsSending(false); setSendStatus("") }
SubmitCatch(st, ov) ==
    /\ savedLocally' = TRUE
    /\ savedSet' = TRUE
    /\ isSending' = FALSE
    /\ sendStatus' = ""
    /\ pc' = "idle"
    /\ inflight' = {}
    /\ log' = log \o << "gen.throw" >>
    /\ outcome' = "THROWN"
    /\ step' = st
    /\ overlay' = ov
    /\ UNCHANGED << helperVars, scoreVars, navMode, contactFilled, variant, clientPdf, meta,
                    requests, response, downloads, attempts >>

\* if (clientPdf) { ... await emailjs.send(...)
StartPrimary(r, st, ov) ==
    /\ clientPdf' = r
    /\ sendStatus' = "Sending email"
    /\ pc' = "primary"
    /\ inflight' = {"emailjs.send"}
    /\ log' = log \o << "gen.pdf", "primary.start" >>
    /\ step' = st
    /\ overlay' = ov
    /\ UNCHANGED << helperVars, scoreVars, navMode, contactFilled, savedLocally, isSending,
                    variant, meta, requests, response, downloads, savedSet, attempts,
                    outcome >>

\* else { ... await fetch('/api/send-form-email', { body: JSON.stringify(payload) })
StartSecondaryNoPdf(st, ov) ==
    /\ clientPdf' = NoPdf
    /\ sendStatus' = "Sending email"
    /\ pc' = "fetch"
    /\ requests' = Append(requests, Body(data, meta[1], NoPdf))
    /\ inflight' = {"fetch"}
    /\ log' = log \o << "gen.null", "secondary.start" >>
    /\ step' = st
    /\ overlay' = ov
    /\ UNCHANGED << helperVars, scoreVars, navMode, contactFilled, savedLocally, isSending,
                    variant, meta, response, downloads, savedSet, attempts, outcome >>

\* the handler from the settling of generateClientPdf to its next await
AfterClientPdf(r, st, ov) ==
    IF r = Thrown THEN SubmitCatch(st, ov)
    ELSE IF r # NoPdf THEN StartPrimary(r, st, ov)
    ELSE StartSecondaryNoPdf(st, ov)

\* generateClientPdf settles, as the code has it
GenerateClientPdf ==
    /\ pc = "gen"
    /\ \E depsOk \in BOOLEAN, jsPdfOk \in BOOLEAN, capturesOk \in BOOLEAN :
          AfterClientPdf(generateClientPdf(depsOk, jsPdfOk, capturesOk),
                         stepAfter(depsOk, jsPdfOk, step),
                         overlayAfter(depsOk, jsPdfOk))

\* generateClientPdf replaced by a stand-in that returns a payload or null
\* (a simulated renderer: the handler's client-PDF branch under test)
SimulatedClientPdf ==
    /\ pc = "gen"
    /\ \E r \in {ClientPayload, NoPdf} : AfterClientPdf(r, step, FALSE)

\* the tail of the try, then finally: downloadBase64Pdf / setSavedLocally(true) as
\* the branch says, setStep(10), setIsSending(false), setSendStatus("")
AttemptEnds(o, dl, saved, event) ==
    /\ downloads' = downloads \o dl
    /\ savedLocally' = (savedLocally \/ saved)
    /\ savedSet' = saved
    /\ step' = 10
    /\ isSending' = FALSE
    /\ sendStatus' = ""
    /\ pc' = "idle"
    /\ inflight' = {}
    /\ log' = log \o << event >> \o (IF dl # << >> THEN << "download" >> ELSE << >>)
    /\ outcome' = o
    /\ UNCHANGED << helperVars, scoreVars, navMode, contactFilled, overlay, variant, clientPdf,
                    meta, requests, attempts >>

\* if (!emailSent) { ... await fetch('/api/send-form-email', ...) with the client PDF
StartSecondaryWithPdf(event) ==
    /\ pc' = "fetch"
    /\ requests' = Append(requests, Body(data, meta[1], clientPdf))
    /\ inflight' = {"fetch"}
    /\ log' = log \o << event, "secondary.start" >>
    /\ UNCHANGED << helperVars, scoreVars, navVars, savedLocally, isSending, sendStatus,
                    overlay, variant, clientPdf, meta, response, downloads, savedSet, attempts,
                    outcome >>

\* OnPrimaryResult without `emailSent = true`: the fallback runs after a sent email
OnPrimaryResult_IgnoresSent(ok, event) == StartSecondaryWithPdf(event)

\* try { await emailjs.send(...); emailSent = true } catch {}  if (!emailSent) { ... }
OnPrimaryResult(ok, event) ==
    IF ok THEN AttemptEnds("DELIVERED", << >>, FALSE, event) /\ UNCHANGED response
          ELSE StartSecondaryWithPdf(event)

\* emailjs.send settles
PrimaryResolves ==
    /\ pc = "primary"
    /\ \E ok \in BOOLEAN :
          OnPrimaryResult(ok, IF ok THEN "primary.ok" ELSE "primary.fail")

\* result?.pdfBase64 is a PDF payload
HasPdf(result) == result.pdfBase64 \notin {NoValue, "not-json", "no-response"}

\* SecondaryFailed that only sets the flag, never downloading
SecondaryFailed_FlagOnly(result, event) ==
    AttemptEnds("SAVED_LOCALLY_FLAG", << >>, TRUE, event)

\* SecondaryFailed that downloads without setSavedLocally(true)
SecondaryFailed_NoSave(result, event) ==
    IF clientPdf # NoPdf
    THEN AttemptEnds("LOCAL_DOWNLOAD",
                     << [base64 |-> clientPdf.pdfBase64, filename |-> clientPdf.filename] >>,
                     FALSE, event)
    ELSE IF HasPdf(result)
         THEN AttemptEnds("LOCAL_DOWNLOAD",
                          << [base64 |-> result.pdfBase64, filename |-> result.filename] >>,
                          FALSE, event)
         ELSE AttemptEnds("SAVED_LOCALLY_FLAG", << >>, TRUE, event)

\* SecondaryFailed whose branch without a PDF payload does nothing
SecondaryFailed_SilentNoPayload(result, event) ==
    IF clientPdf # NoPdf
    THEN AttemptEnds("LOCAL_DOWNLOAD",
                     << [base64 |-> clientPdf.pdfBase64, filename |-> clientPdf.filename] >>,
                     TRUE, event)
    ELSE IF HasPdf(result)
         THEN AttemptEnds("LOCAL_DOWNLOAD",
                          << [base64 |-> result.pdfBase64, filename |-> result.filename] >>,
                          TRUE, event)
         ELSE AttemptEnds("SAVED_LOCALLY_FLAG", << >>, FALSE, event)

\* a secondary call that did not deliver: the catch of the fetch try, or !result.success
SecondaryFailed(result, event) ==
    IF clientPdf # NoPdf
    THEN AttemptEnds("LOCAL_DOWNLOAD",
                     << [base64 |-> clientPdf.pdfBase64, filename |-> clientPdf.filename] >>,
                     TRUE, event)
    ELSE IF HasPdf(result)
         THEN AttemptEnds("LOCAL_DOWNLOAD",
                          << [base64 |-> result.pdfBase64,
                              filename |-> IF result.filename # NoValue
                                           THEN result.filename ELSE DefaultFile] >>,
                          TRUE, event)
         ELSE AttemptEnds("SAVED_LOCALLY_FLAG", << >>, TRUE, event)

\* OnSecondaryResult without the `if (!result.success)` guard
OnSecondaryResult_Unguarded(success, result, event) == SecondaryFailed(result, event)

\* const result = await res.json(); if (!result.success) { ... }, and the catch
OnSecondaryResult(success, result, event) ==
    IF success THEN AttemptEnds("DELIVERED", << >>, FALSE, event)
               ELSE SecondaryFailed(result, event)

\* fetch settles: it rejects, or resolves with the handler's JSON answer or with a
\* body that is no JSON; then `await res.json()`
FetchResolves ==
    /\ pc = "fetch"
    /\ \E net \in {"reject", "json", "not-json"}, env \in ServerEnvs :
          IF net = "reject"
          THEN OnSecondaryResult(FALSE, NoResponse, "secondary.fail") /\ UNCHANGED response
          ELSE /\ pc' = "json"
               /\ response' = IF net = "json"
                              THEN handler("POST", requests[Len(requests)], env)
                              ELSE NotJson
               /\ UNCHANGED << helperVars, scoreVars, navVars, savedLocally, isSending,
                               sendStatus, overlay, variant, clientPdf, meta, requests,
                               downloads, inflight, log, savedSet, attempts, outcome >>

\* res.json() settles: it rejects (no JSON), or gives the handler's answer
JsonResolves ==
    /\ pc = "json"
    /\ UNCHANGED response
    /\ IF response = NotJson
       THEN OnSecondaryResult(FALSE, NotJson, "secondary.fail")
       ELSE OnSecondaryResult(response.success, response,
                              IF response.success THEN "secondary.ok" ELSE "secondary.fail")

(***************************************************************************)
(* What IndexPage renders for a step.  The step-10 view is a fixed         *)
(* message; savedLocally is never read by the render.                      *)
(***************************************************************************)
StepView(st, saved) ==
    [screen |-> st,
     text |-> IF st = 10
              THEN "That's it! You will receive a PDF of these notes via email."
              ELSE "form"]

(***************************************************************************)
(* Navigation of the wizard.                                               *)
(***************************************************************************)
\* step 0: <Button onClick={() => setStep(1)}>Start</Button>
StartButton ==
    /\ step = 0
    /\ step' = 1
    /\ UNCHANGED << helperVars, scoreVars, navMode, contactFilled, pipeVars >>

\* steps 1..8: Next; on step 1 disabled={!formData.email || !formData.address}
NextButton ==
    /\ step \in 1..8
    /\ step = 1 => contactFilled
    /\ step' = step + 1
    /\ UNCHANGED << helperVars, scoreVars, navMode, contactFilled, pipeVars >>

\* steps 1..9: Back; on step 9 disabled={isSending}
BackButton ==
    /\ step \in 1..9
    /\ step = 9 => ~isSending
    /\ step' = step - 1
    /\ UNCHANGED << helperVars, scoreVars, navMode, contactFilled, pipeVars >>

\* handleTouchEnd: a swipe left (diffX < -50) or right (diffX > 100)
Swipe(dir) ==
    /\ navMode = "swipe"
    /\ IF dir = "left" THEN step < 10 /\ step' = step + 1
                       ELSE step > 0 /\ step' = step - 1
    /\ UNCHANGED << helperVars, scoreVars, navMode, contactFilled, pipeVars >>

\* step 1: the navigation-mode radio buttons
SetNavMode(m) ==
    /\ step = 1
    /\ navMode # m
    /\ navMode' = m
    /\ UNCHANGED << helperVars, scoreVars, step, contactFilled, pipeVars >>

\* step 1: the email and address inputs are filled in, or one is cleared
SetContact(filled) ==
    /\ step = 1
    /\ contactFilled # filled
    /\ contactFilled' = filled
    /\ UNCHANGED << helperVars, scoreVars, step, navMode, pipeVars >>

Navigate ==
    \/ StartButton
    \/ NextButton
    \/ BackButton
    \/ \E dir \in {"left", "right"} : Swipe(dir)
    \/ \E m \in {"swipe", "buttons"} : SetNavMode(m)
    \/ \E filled \in BOOLEAN : SetContact(filled)

(***************************************************************************)
(* The scoring helpers applied to a record.                                *)
(***************************************************************************)
\* one property of the input record is set
SetField(f, v) ==
    /\ edits < MaxEdits
    /\ data' = WithField(data, f, v)
    /\ edits' = edits + 1
    /\ scored' = << >>
    /\ UNCHANGED << helperVars, navVars, pipeVars >>

\* normalizeScore on every catalog field, computeOverallScore, computeSectionScores,
\* buildSummary and computeSectionScores once more are called on data, in this order;
\* sections is the first array as it is after the later calls
ApplyScoring ==
    /\ scored = << >>
    /\ scored' = << [normalized |-> [ f \in RatingFieldSet |-> normalizeScore(f, Get(data, f)) ],
                     overall    |-> computeOverallScore(data),
                     sections   |-> AfterBuildSummary(computeSectionScores(data), data),
                     summary    |-> buildSummary(data),
                     sectionsAgain |-> computeSectionScores(data)] >>
    /\ UNCHANGED << helperVars, data, edits, navVars, pipeVars >>

(***************************************************************************)
(* Specifications.                                                         *)
(***************************************************************************)
\* the application as the code has it
Next ==
    \/ Navigate
    \/ \E v \in {"desktop", "mobile"} : Submit(v)
    \/ GenerateClientPdf
    \/ FetchResolves
    \/ JsonResolves

Spec == Init /\ [][Next]_vars

\* the Submit handlers around a simulated client renderer
NextSim ==
    \/ Navigate
    \/ \E v \in {"desktop", "mobile"} : Submit(v)
    \/ SimulatedClientPdf
    \/ PrimaryResolves
    \/ FetchResolves
    \/ JsonResolves

SpecSim == Init /\ [][NextSim]_vars

\* the scoring helpers over bounded input records
InitScore ==
    /\ data \in ScoreInputs
    /\ edits = 0
    /\ scored = << >>
    /\ NavInit
    /\ PipeInit
    /\ HelperInit

NextScore ==
    \/ \E f \in RatingFieldSet, v \in RawValues : SetField(f, v)
    \/ ApplyScoring

SpecScore == InitScore /\ [][NextScore]_vars

(***************************************************************************)
(* Properties of the scoring helpers (checked under SpecScore).            *)
(***************************************************************************)
\* a rating field is unanswered: 0, null or absent
Unanswered(d, f) == Get(d, f) \in {0, Null}

AllUnanswered(d) == \A f \in RatingFieldSet : Unanswered(d, f)

\* the normalized values of the answered (1..5) fields among `fields`
RECURSIVE AnsweredVals(_, _)
AnsweredVals(fields, d) ==
    IF fields = << >>
    THEN << >>
    ELSE LET f == Head(fields)
             v == Get(d, f)
         IN  (IF v \in 1..5
              THEN << IF f \in NEGATIVE_HIGH_FIELDS THEN 6 - v ELSE v >>
              ELSE << >>) \o AnsweredVals(Tail(fields), d)

\* the mean, to one decimal (in tenths), of the answered fields; 0 when there is none
ExpectedScore(fields, d) ==
    LET vals == AnsweredVals(fields, d)
    IN  IF vals = << >> THEN 0 ELSE (20 * SumSeq(vals) + Len(vals)) \div (2 * Len(vals))

\* C1: for every record whose 21 catalog rating fields are all unanswered (0, null
\* or absent), computeOverallScore returns exactly 0.
C1_AllUnansweredScoresZero ==
    (scored # << >> /\ AllUnanswered(data)) => scored[1].overall = 0

\* C2: normalizeScore(field, value) returns null whenever value is null/undefined,
\* NaN or 0, for every catalog field; a rating of 0 never becomes a numeric score.
C2_UnansweredNormalizesToNull ==
    scored # << >> =>
        \A f \in RatingFieldSet :
            Get(data, f) \in {Null, NaN, 0} => scored[1].normalized[f] = Null

\* C3: computeSectionScores gives a section the score 0 when none of its rating
\* fields is answered, and otherwise the one-decimal mean of the normalized values
\* of only that section's answered fields.
C3_SectionScoreOverAnsweredFields ==
    scored # << >> =>
        \A i \in DOMAIN sectionFieldMap :
            scored[1].sections[i].score = ExpectedScore(sectionFieldMap[i].fields, data)

(***************************************************************************)
(* Properties of the submission pipeline.                                  *)
(***************************************************************************)
InLog(e) == \E i \in DOMAIN log : log[i] = e

\* the last attempt has run to its end
Ended == pc = "idle" /\ outcome \notin {"none", "pending"}

\* a transport call of the attempt succeeded
TransportSucceeded == InLog("primary.ok") \/ InLog("secondary.ok")

\* a PDF payload was available to the attempt: the client PDF, or the pdfBase64 of
\* the secondary response
PayloadAvailable == clientPdf # NoPdf \/ HasPdf(response)

AvailablePayload ==
    IF clientPdf # NoPdf
    THEN [base64 |-> clientPdf.pdfBase64, filename |-> clientPdf.filename]
    ELSE [base64 |-> response.pdfBase64, filename |-> response.filename]

\* C4 (as stated): over all outcomes of client rendering and of the two transports,
\* an attempt that does not end DELIVERED always hands a PDF to local download; no
\* terminal state has the email unsent and no PDF saved on the device.  (Stated for
\* the attempts whose try block runs to its end; an exception that reaches the
\* outer catch ends without a download as well.)
C4_UndeliveredAlwaysDownloads ==
    (Ended /\ ~TransportSucceeded /\ outcome # "THROWN") => Len(downloads) >= 1

\* C4 (amended): an attempt that does not end DELIVERED always sets savedLocally, and
\* hands a PDF to local download exactly when a PDF payload is available to it (the
\* client PDF, or the pdfBase64 of the secondary response); without one it ends with
\* the flag alone.
C4_UndeliveredFlaggedDownloadsIffPayload ==
    (Ended /\ ~TransportSucceeded) =>
        /\ savedLocally
        /\ (Len(downloads) >= 1) <=> PayloadAvailable

C4_Witness ==
    /\ Ended
    /\ ~TransportSucceeded
    /\ outcome = "LOCAL_DOWNLOAD"
    /\ Len(downloads) = 1
    /\ downloads[1].base64 = "serverPdf"

\* C5: whenever an attempt ends without delivery (LOCAL_DOWNLOAD or
\* SAVED_LOCALLY_FLAG), what the UI shows afterwards depends on savedLocally and
\* differs from what it shows after a DELIVERED attempt.
C5_UndeliveredIsReported ==
    (Ended /\ step = 10 /\ outcome \in {"LOCAL_DOWNLOAD", "SAVED_LOCALLY_FLAG"}) =>
        StepView(step, savedLocally) # StepView(10, FALSE)

\* C6: in any attempt in which a transport call succeeds, the attempt ends DELIVERED:
\* downloadBase64Pdf is never invoked and the attempt does not set savedLocally.
C6_TransportSuccessEndsDelivered ==
    TransportSucceeded =>
        /\ Ended
        /\ outcome = "DELIVERED"
        /\ downloads = << >>
        /\ ~savedSet
        /\ ~InLog("download")

C6_Witness ==
    /\ Ended
    /\ InLog("primary.fail")
    /\ InLog("secondary.ok")
    /\ step = 10

\* C7: in any attempt that ends without delivery while a PDF payload is available
\* (the client PDF, else the pdfBase64 of the secondary response), downloadBase64Pdf
\* is invoked exactly once, with that payload and its filename, and savedLocally is
\* set to true.
C7_UndeliveredWithPayloadDownloadsOnce ==
    (Ended /\ ~TransportSucceeded /\ PayloadAvailable) =>
        /\ downloads = << AvailablePayload >>
        /\ savedSet
        /\ savedLocally

C7_Witness ==
    /\ Ended
    /\ ~TransportSucceeded
    /\ clientPdf = ClientPayload
    /\ downloads = << [base64 |-> "clientPdf", filename |-> NamedFile] >>

\* C8: if generateClientPdf returns null, emailjs.send is never called in that
\* attempt and exactly one secondary request is made, whose body is the survey record
\* plus meta {overallScore, summary}, without clientPdfBase64 or clientPdfFilename.
C8_NullPdfOneRequestWithoutPdf ==
    InLog("gen.null") =>
        /\ ~InLog("primary.start")
        /\ requests = << [record |-> data,
                          meta |-> [overallScore |-> computeOverallScore(data),
                                    summary |-> buildSummary(data)]] >>

C8_Witness ==
    /\ Ended
    /\ InLog("gen.null")
    /\ Len(requests) = 1
    /\ DOMAIN requests[1] = {"record", "meta"}

\* C9: if generateClientPdf returns null and the secondary transport then fails without
\* a PDF payload (success:false without pdfBase64, or the request or its JSON parsing
\* throws), savedLocally is set to true and downloadBase64Pdf is never invoked.
C9_NullPdfNoPayloadIsSignalOnly ==
    (Ended /\ InLog("gen.null") /\ InLog("secondary.fail") /\ ~HasPdf(response)) =>
        /\ savedSet
        /\ savedLocally
        /\ downloads = << >>
        /\ ~InLog("download")

C9_Witness ==
    /\ Ended
    /\ InLog("gen.null")
    /\ InLog("secondary.fail")
    /\ response.status = 500
    /\ ~HasPdf(response)
    /\ savedLocally

\* C10: within one attempt the external calls are strictly sequential: no transport
\* call starts before generateClientPdf has settled, the secondary transport is called
\* only right after the primary call failed or client generation gave null, local
\* download is invoked only right after the secondary call failed, and no two calls
\* are in progress at the same time.
C10_ExternalCallsSequential ==
    /\ Cardinality(inflight) <= 1
    /\ \A i \in DOMAIN log :
          /\ log[i] \in {"gen.pdf", "gen.null", "gen.throw"} =>
                i > 1 /\ log[i - 1] = "gen.start"
          /\ log[i] = "primary.start" => i > 1 /\ log[i - 1] = "gen.pdf"
          /\ log[i] = "secondary.start" =>
                i > 1 /\ log[i - 1] \in {"primary.fail", "gen.null"}
          /\ log[i] = "download" => i > 1 /\ log[i - 1] = "secondary.fail"
          /\ log[i] \in {"primary.start", "secondary.start", "download"} =>
                \E j \in 1..(i - 1) : log[j] \in {"gen.pdf", "gen.null"}

C10_Witness ==
    /\ Ended
    /\ log = << "gen.start", "gen.pdf", "primary.start", "primary.fail",
                "secondary.start", "secondary.fail", "download" >>


\* the secondary request of the attempt threw: fetch rejected, or response.json() did
SecondaryThrew == InLog("secondary.fail") /\ response \in {NoResponse, NotJson}

\* an exception was raised inside the attempt: generateClientPdf returns null only
\* from its catch blocks and rejects when new jsPDF throws; emailjs.send fails only by
\* throwing
ExceptionRaised ==
    InLog("gen.null") \/ InLog("gen.throw") \/ InLog("primary.fail") \/ SecondaryThrew

\* C11 (as stated): any exception raised anywhere inside a submission attempt is
\* caught by the submit handler: the attempt ends, savedLocally is set to true and
\* isSending is reset to false.
C11_AnyExceptionSetsSavedLocally ==
    (Ended /\ ExceptionRaised) => (savedSet /\ savedLocally /\ ~isSending)

\* C11 (amended): no exception raised inside an attempt leaves the handler: every
\* attempt that is over has a terminal outcome, with isSending false and no call in
\* flight.  savedLocally is set to true when the exception reaches the handler's
\* outer catch or when the secondary request (fetch or response.json()) throws; an
\* exception caught inside generateClientPdf (which then returns null) or thrown by
\* emailjs.send only starts the next fallback, and savedLocally is set exactly when
\* no transport succeeds after it.
C11_ExceptionsCaughtFlagUnlessDelivered ==
    /\ pc = "idle" =>
          /\ ~isSending
          /\ inflight = {}
          /\ outcome \in {"none", "DELIVERED", "LOCAL_DOWNLOAD", "SAVED_LOCALLY_FLAG",
                          "THROWN"}
    /\ (Ended /\ (InLog("gen.throw") \/ SecondaryThrew)) => (savedSet /\ savedLocally)
    /\ (Ended /\ ExceptionRaised) => (savedSet <=> ~TransportSucceeded)

\* new jsPDF threw inside generateClientPdf and the handler's outer catch ended the
\* attempt
C11_Witness ==
    /\ Ended
    /\ outcome = "THROWN"
    /\ log = << "gen.start", "gen.throw" >>
    /\ savedLocally
    /\ ~isSending


(***************************************************************************)
(* Further properties of the scoring helpers (checked under SpecScore).    *)
(***************************************************************************)
\* the catalog fields whose normalized value is a number
NonNullFields(n) == { f \in RatingFieldSet : n[f] # Null }

RECURSIVE SumOver(_, _)
SumOver(S, n) ==
    IF S = {} THEN 0 ELSE LET f == CHOOSE x \in S : TRUE IN n[f] + SumOver(S \ {f}, n)

\* C12: computeOverallScore(record) equals the arithmetic mean, rounded to one
\* decimal, of the non-null normalizeScore results over the 21 catalog fields; for
\* the record holding only firstWelcomeRating = 5 and bathroomWaterPressure = 5 the
\* normalized values are [5, 1] and the result is 3.0.
C12_OverallIsRoundedMeanOfNonNull ==
    scored # << >> =>
        LET n   == scored[1].normalized
            S   == NonNullFields(n)
            k   == Cardinality(S)
            sum == SumOver(S, n)
        IN  /\ k > 0 => scored[1].overall = (20 * sum + k) \div (2 * k)
            /\ data = ExampleRecord =>
                  /\ S = {"firstWelcomeRating", "bathroomWaterPressure"}
                  /\ n["firstWelcomeRating"] = 5
                  /\ n["bathroomWaterPressure"] = 1
                  /\ scored[1].overall = 30

\* the documented example was scored 3.0
C12_Witness ==
    /\ scored # << >>
    /\ data = ExampleRecord
    /\ scored[1].overall = 30

\* the elements of a sequence
Range(seq) == { seq[i] : i \in DOMAIN seq }

\* the score computeSectionScores gave the section called name
ScoreOf(secs, name) == secs[CHOOSE i \in DOMAIN secs : secs[i].section = name].score

\* the names of the sections whose score is not 0
NonzeroSections(secs) == { secs[i].section : i \in { j \in DOMAIN secs : secs[j].score # 0 } }

Kinds(sentences) == { sentences[i].kind : i \in DOMAIN sentences }

C16_NormalizeAnsweredInRange ==
    scored # << >> =>
        \A f \in RatingFieldSet :
            LET v == Get(data, f)
                r == scored[1].normalized[f]
            IN  v \in 1..5 =>
                  /\ r = IF f \in NEGATIVE_HIGH_FIELDS THEN 6 - v ELSE v
                  /\ r \in 1..5
                  /\ f \in NEGATIVE_HIGH_FIELDS => normalizeScore(f, r) = v

\* a negative-high 5 became 1 and a positive-high 5 stayed 5
C16_Witness ==
    /\ scored # << >>
    /\ Get(data, "bathroomWaterPressure") = 5
    /\ scored[1].normalized["bathroomWaterPressure"] = 1
    /\ Get(data, "firstWelcomeRating") = 5
    /\ scored[1].normalized["firstWelcomeRating"] = 5

\* every catalog field of the record holds a value in 1..5
FullyAnswered(d) == \A f \in RatingFieldSet : Get(d, f) \in 1..5

\* C17: for every record in which all 21 catalog fields hold a value in 1..5,
\* computeOverallScore returns a value in [1.0, 5.0].
C17_FullyAnsweredScoreInRange ==
    (scored # << >> /\ FullyAnswered(data)) => scored[1].overall \in 10..50

\* the least favourable fully answered record scores exactly 1.0
C17_Witness ==
    /\ scored # << >>
    /\ data = WorstRecord
    /\ FullyAnswered(data)
    /\ scored[1].overall = 10


(***************************************************************************)
(* File names.  A string is the sequence of its characters.                *)
(***************************************************************************)
\* the longest address entered
MaxAddressLen == 3

\* \w of a regular expression without the u flag: [A-Za-z0-9_]
WordChars ==
    { "a", "b", "c", "d", "e", "f", "g", "h", "i", "j", "k", "l", "m", "n", "o", "p",
       "q", "r", "s", "t", "u", "v", "w", "x", "y", "z", "A", "B", "C", "D", "E", "F",
       "G", "H", "I", "J", "K", "L", "M", "N", "O", "P", "Q", "R", "S", "T", "U", "V",
       "W", "X", "Y", "Z", "0", "1", "2", "3", "4", "5", "6", "7", "8", "9", "_" }

\* a character that [^\w.\- ] does not match
Allowed(c) == c \in WordChars \cup {".", "-", " "}

\* s.replace(/[^\w.\- ]/g, "_"): the expression without its +
replaceDisallowed_PerChar(s) == [ i \in DOMAIN s |-> IF Allowed(s[i]) THEN s[i] ELSE "_" ]

\* the rest of s after the characters [^\w.\- ]+ matches at its start
RECURSIVE SkipDisallowed(_)
SkipDisallowed(s) ==
    IF s = << >> \/ Allowed(Head(s)) THEN s ELSE SkipDisallowed(Tail(s))

\* s.replace(/[^\w.\- ]+/g, "_"): each match, a longest run of characters outside
\* the class, becomes one "_"
RECURSIVE replaceDisallowed(_)
replaceDisallowed(s) ==
    IF s = << >>
    THEN << >>
    ELSE IF Allowed(Head(s))
         THEN << Head(s) >> \o replaceDisallowed(Tail(s))
         ELSE << "_" >> \o replaceDisallowed(SkipDisallowed(Tail(s)))

\* a || b on strings: the empty string, null and undefined give b
OrElse(a, b) == IF a = << >> THEN b ELSE a

\* "Untitled Address"
UntitledAddress == << "U", "n", "t", "i", "t", "l", "e", "d", " ", "A", "d", "d", "r",
                      "e", "s", "s" >>

\* `Home-Tour-Notes_${address}_${dateStr}.pdf`
nameTemplate(address, dateStr) ==
    << "H", "o", "m", "e", "-", "T", "o", "u", "r", "-", "N", "o", "t", "e", "s", "_" >>
        \o address \o << "_" >> \o dateStr \o << ".", "p", "d", "f" >>

\* generateClientPdf: const filename
clientPdfFilename(d) ==
    LET address == OrElse(d.address, UntitledAddress)
        dateStr == OrElse(d.date, << >>)
    IN  replaceDisallowed(nameTemplate(address, dateStr))

\* handler: const filename
handlerFilename(body) ==
    LET address == OrElse(body.address, UntitledAddress)
        dateStr == OrElse(body.date, << >>)
    IN  replaceDisallowed(OrElse(body.clientPdfFilename, nameTemplate(address, dateStr)))

\* the characters addresses are typed from: of the class, and outside it
AddressChars == {"a", "7", " ", "-", "/", "#"}

RECURSIVE StringsUpTo(_)
StringsUpTo(n) ==
    IF n = 0
    THEN { << >> }
    ELSE LET shorter == StringsUpTo(n - 1)
         IN  shorter \cup { Append(s, c) : s \in shorter, c \in AddressChars }

\* "Van Diemenstraat 123/45" and "2024-01-01"
ExampleAddress ==
    << "V", "a", "n", " ", "D", "i", "e", "m", "e", "n", "s", "t", "r", "a", "a", "t",
       " ", "1", "2", "3", "/", "4", "5" >>
ExampleDate == << "2", "0", "2", "4", "-", "0", "1", "-", "0", "1" >>

\* formData.address and formData.date (an ISO date, "" until the page has set it)
NameInputs ==
    [address : StringsUpTo(MaxAddressLen) \cup {ExampleAddress},
     date : {<< >>, ExampleDate},
     withClientPdf : BOOLEAN]

InitName ==
    /\ args \in { << a >> : a \in NameInputs }
    /\ returned = << >>
    /\ data = InitialFormData
    /\ edits = 0
    /\ scored = << >>
    /\ NavInit
    /\ PipeInit

\* generateClientPdf names its PDF; the handler names the PDF of the request, which
\* carries clientPdfFilename when the client rendered one
NameFiles ==
    /\ args # << >>
    /\ returned = << >>
    /\ LET a      == args[1]
           client == clientPdfFilename(a)
           body   == [address |-> a.address, date |-> a.date,
                      clientPdfFilename |-> IF a.withClientPdf THEN client ELSE << >>]
       IN  returned' = << [client |-> client, server |-> handlerFilename(body)] >>
    /\ UNCHANGED << args, scoreVars, navVars, pipeVars >>

NextName == NameFiles

SpecName == InitName /\ [][NextName]_vars

\* the name before the replacement, for the arguments a
TemplateOf(a) == nameTemplate(OrElse(a.address, UntitledAddress), a.date)

\* the characters of the class [A-Za-z0-9._- ]
InClass(c) == c \in WordChars \cup {".", "-", " "}

\* s with each character outside the class replaced, one by one, by "_"
EachReplaced(s) == [ i \in DOMAIN s |-> IF InClass(s[i]) THEN s[i] ELSE "_" ]

\* the positions of s that are in the class or start a run of characters outside it
RunStarts(s) == { i \in DOMAIN s : InClass(s[i]) \/ i = 1 \/ InClass(s[i - 1]) }

\* s with each longest run of characters outside the class replaced by one "_"
EachRunReplaced(s) ==
    LET P == RunStarts(s)
    IN  [ k \in 1..Cardinality(P) |->
            EachReplaced(s)[CHOOSE i \in P : Cardinality({ j \in P : j <= i }) = k] ]

\* "Home-Tour-Notes_Van Diemenstraat 123_45_2024-01-01.pdf"
ExampleFilename ==
    << "H", "o", "m", "e", "-", "T", "o", "u", "r", "-", "N", "o", "t", "e",
                 "s", "_", "V", "a", "n", " ", "D", "i", "e", "m", "e", "n", "s", "t",
                 "r", "a", "a", "t", " ", "1", "2", "3", "_", "4", "5", "_", "2", "0",
                 "2", "4", "-", "0", "1", "-", "0", "1", ".", "p", "d", "f" >>

\* C18 (as stated): generateClientPdf and the server handler both name the PDF
\* Home-Tour-Notes_<address>_<date>.pdf with every character outside
\* [A-Za-z0-9._- ] replaced, each such character individually, by one "_".
C18_EachCharacterReplacedByUnderscore ==
    returned # << >> =>
        /\ returned[1].client = EachReplaced(TemplateOf(args[1]))
        /\ returned[1].server = EachReplaced(TemplateOf(args[1]))

\* C18 (amended): generateClientPdf and the server handler both name the PDF
\* Home-Tour-Notes_<address>_<date>.pdf with every longest run of consecutive
\* characters outside [A-Za-z0-9._- ] replaced by one "_" (a single such character
\* by one "_", several in a row by one "_" as well); the address "Van Diemenstraat
\* 123/45" with the date 2024-01-01 gives
\* "Home-Tour-Notes_Van Diemenstraat 123_45_2024-01-01.pdf".
C18_EachRunReplacedByOneUnderscore ==
    returned # << >> =>
        /\ returned[1].client = EachRunReplaced(TemplateOf(args[1]))
        /\ returned[1].server = EachRunReplaced(TemplateOf(args[1]))
        /\ \A i \in DOMAIN returned[1].client : InClass(returned[1].client[i])
        /\ (args[1].address = ExampleAddress /\ args[1].date = ExampleDate) =>
              /\ returned[1].client = ExampleFilename
              /\ returned[1].server = ExampleFilename

\* the documented example was named, by the client and by the server
C18_Witness ==
    /\ returned # << >>
    /\ args[1].address = ExampleAddress
    /\ args[1].date = ExampleDate
    /\ ~args[1].withClientPdf
    /\ returned[1].client = ExampleFilename
    /\ returned[1].server = ExampleFilename

(***************************************************************************)
(* downloadBase64Pdf(base64, filename).  env names which of its attempts   *)
(* throw; the value is the attempts the call makes, in order.              *)
(***************************************************************************)
\* the most calls of downloadBase64Pdf followed
MaxCalls == 3

\* one attempt to persist or open the file, and whether it ran without throwing
Attempt(strategy, ok) == [strategy |-> strategy, ok |-> ok]

\* what the browser does to the attempts of one call: TRUE when the attempt does
\* not throw
DownloadEnvs == [blob : BOOLEAN, dataUrl : BOOLEAN, open : BOOLEAN, tail : BOOLEAN]

downloadBase64Pdf(hasWindow, env) ==
    IF ~hasWindow
    THEN << >>
    ELSE IF env.blob
    THEN << Attempt("tryBlobDownload", TRUE) >>
    ELSE IF env.dataUrl
    THEN << Attempt("tryBlobDownload", FALSE), Attempt("tryDataUrlDownload", TRUE) >>
    ELSE << Attempt("tryBlobDownload", FALSE), Attempt("tryDataUrlDownload", FALSE),
            Attempt("window.open", env.open),
            \* no return after window.open: the block at the end of the function runs
            Attempt("data-URI anchor click", env.tail) >>

\* the payloads handed to downloadBase64Pdf
DownloadInputs ==
    { [base64 |-> "clientPdf", filename |-> NamedFile],
      [base64 |-> "serverPdf", filename |-> DefaultFile] }

InitDownload ==
    /\ args \in { << a >> : a \in DownloadInputs }
    /\ returned = << >>
    /\ data = InitialFormData
    /\ edits = 0
    /\ scored = << >>
    /\ NavInit
    /\ PipeInit

\* a click handler calls downloadBase64Pdf (in the browser: window is defined)
DownloadBase64Pdf(env) ==
    /\ args # << >>
    /\ Len(returned) < MaxCalls
    /\ returned' = Append(returned, downloadBase64Pdf(TRUE, env))
    /\ UNCHANGED << args, scoreVars, navVars, pipeVars >>

NextDownload == \E env \in DownloadEnvs : DownloadBase64Pdf(env)

SpecDownload == InitDownload /\ [][NextDownload]_vars

\* the strategies in the order they are to be tried
StrategyOrder == << "tryBlobDownload", "tryDataUrlDownload", "window.open" >>

\* C19: downloadBase64Pdf tries its strategies in the order object-URL anchor click,
\* data-URI anchor click, new-tab open, and stops at the first one that does not
\* throw: once a strategy has succeeded no further strategy is attempted, so one
\* call persists or opens the file at most once.
C19_StopsAtFirstSuccess ==
    \A c \in DOMAIN returned :
        LET t == returned[c]
        IN  /\ \A i \in DOMAIN t :
                  /\ i <= Len(StrategyOrder) => t[i].strategy = StrategyOrder[i]
                  /\ t[i].ok => i = Len(t)
            /\ Cardinality({ i \in DOMAIN t : t[i].ok }) <= 1

(***************************************************************************)
(* Photos of a section in the two renderers.  A photo is named by its      *)
(* place in the section's list.                                            *)
(***************************************************************************)
\* the most photos a section holds
MaxPhotos == 26

\* SECTION_CONFIG (client) and SECTIONS (server): key and photosKey of each section
SECTION_CONFIG ==
    << [key |-> "First Impressions", photosKey |-> "firstPhotos"],
       [key |-> "Living",            photosKey |-> "livingPhotos"],
       [key |-> "Kitchen",           photosKey |-> "kitchenPhotos"],
       [key |-> "Bathroom",          photosKey |-> "bathroomPhotos"],
       [key |-> "Bedroom",           photosKey |-> "bedroomPhotos"],
       [key |-> "Surroundings",      photosKey |-> "surroundingsPhotos"],
       [key |-> "Ask the Makelaar",  photosKey |-> NoValue],
       [key |-> "Final Thoughts",    photosKey |-> NoValue] >>

\* const cap = 24
cap == 24

PHOTOS_PER_ROW == 3
ROWS_PER_PAGE == 4
MAX_PHOTOS_PER_PAGE == PHOTOS_PER_ROW * ROWS_PER_PAGE
MAX_PAGES_PER_SECTION == 2

\* arr.slice(0, n)
SliceFirst(arr, n) == SubSeq(arr, 1, IF Len(arr) < n THEN Len(arr) ELSE n)

\* Array.isArray(data?.[photosKey]) ? data[photosKey] : []
PhotoList(d, photosKey) == IF photosKey \in DOMAIN d THEN d[photosKey] ELSE << >>

\* buildSectionCardEl(data, section): the <img> elements of the card's photo grid
buildSectionCardEl(d, section) ==
    IF section.photosKey = NoValue
    THEN << >>
    ELSE SliceFirst(PhotoList(d, section.photosKey), cap)

\* renderPhotoStrip(photosKey): the <Image> elements of the section's page; the
\* section is one <Page>, and chunkPhotos and MAX_PAGES_PER_SECTION are not used
renderPhotoStrip(d, photosKey) ==
    IF photosKey = NoValue
    THEN << >>
    ELSE SliceFirst(PhotoList(d, photosKey), MAX_PHOTOS_PER_PAGE)

\* the pages of photos PdfDoc renders for a section: its one <Page>
SectionPhotoPages(d, section) ==
    LET strip == renderPhotoStrip(d, section.photosKey)
    IN  IF strip = << >> THEN << >> ELSE << strip >>

\* a section and a record: its photo list holds n photos, or it has no such property
PhotoInputs ==
    { [section |-> SECTION_CONFIG[i], d |-> [ k \in {"firstPhotos", "livingPhotos",
           "kitchenPhotos", "bathroomPhotos", "bedroomPhotos", "surroundingsPhotos"} |->
           [ j \in 1..n |-> j ] ]] : i \in DOMAIN SECTION_CONFIG, n \in 0..MaxPhotos }
    \cup { [section |-> SECTION_CONFIG[i], d |-> EmptyRecord] : i \in DOMAIN SECTION_CONFIG }

InitPhotos ==
    /\ args \in { << a >> : a \in PhotoInputs }
    /\ returned = << >>
    /\ data = InitialFormData
    /\ edits = 0
    /\ scored = << >>
    /\ NavInit
    /\ PipeInit

\* both renderers lay out the section
RenderSection ==
    /\ args # << >>
    /\ returned = << >>
    /\ returned' = << [client |-> buildSectionCardEl(args[1].d, args[1].section),
                       server |-> SectionPhotoPages(args[1].d, args[1].section)] >>
    /\ UNCHANGED << args, scoreVars, navVars, pipeVars >>

NextPhotos == RenderSection

SpecPhotos == InitPhotos /\ [][NextPhotos]_vars

\* the photos of a sequence of pages, in order
RECURSIVE Flatten(_)
Flatten(pages) == IF pages = << >> THEN << >> ELSE Head(pages) \o Flatten(Tail(pages))

\* C20: for a section holding n photos, the client card builder renders the first
\* min(n, 24) photos, and the server renderer renders at most 12 photos per page on
\* at most 2 pages for that section, so the first min(n, 24) as well; photos beyond
\* the cap are dropped without any error.
C20_BothRenderersKeepFirst24 ==
    returned # << >> =>
        LET list  == IF args[1].section.photosKey = NoValue
                     THEN << >>
                     ELSE PhotoList(args[1].d, args[1].section.photosKey)
            n     == Len(list)
            first == SubSeq(list, 1, IF n < 24 THEN n ELSE 24)
            pages == returned[1].server
        IN  /\ returned[1].client = first
            /\ Len(pages) <= 2
            /\ \A p \in DOMAIN pages : Len(pages[p]) <= 12
            /\ Flatten(pages) = first

(***************************************************************************)
(* The /api/send-form-email handler on its own, for any request.           *)
(***************************************************************************)
\* req.method and req.body of the requests the endpoint receives
RequestMethods == {"POST", "GET", "PUT"}
RequestBodies ==
    { Body(InitialFormData, << >>, NoPdf),
      Body(InitialFormData, << >>, ClientPayload),
      [record |-> InitialFormData, clientPdfBase64 |-> "clientPdf"],
      EmptyRecord }

InitHandler ==
    /\ args \in { << [method |-> m, body |-> b, env |-> e] >> :
                     m \in RequestMethods, b \in RequestBodies, e \in ServerEnvs }
    /\ returned = << >>
    /\ data = InitialFormData
    /\ edits = 0
    /\ scored = << >>
    /\ NavInit
    /\ PipeInit

\* the handler runs on the request and answers it
HandleRequest ==
    /\ args # << >>
    /\ returned = << >>
    /\ returned' = << [reply |-> handler(args[1].method, args[1].body, args[1].env),
                       attachment |-> sentAttachment(args[1].method, args[1].body,
                                                     args[1].env)] >>
    /\ UNCHANGED << args, scoreVars, navVars, pipeVars >>

NextHandler == HandleRequest

SpecHandler == InitHandler /\ [][NextHandler]_vars

\* C21: the server handler answers success:true (HTTP 200) only when the email
\* provider accepted the send; for a non-POST request it answers 405 with
\* success:false and sends nothing; when the send returns an error it answers
\* success:false together with the pdfBase64 and filename of the PDF it attached;
\* and when a step throws it answers success:false with pdfBase64 set whenever the
\* PDF can still be built.
C21_HandlerReplies ==
    returned # << >> =>
        LET a        == args[1]
            r        == returned[1].reply
            att      == returned[1].attachment
            sendMade == att # NoPdf
            threw    == a.method = "POST" /\ (~sendMade \/ a.env.send = "throw")
            canBuild == BodyGet(a.body, "clientPdfBase64") # NoValue \/ a.env.rerender
        IN  /\ r.success <=> r.status = 200
            /\ r.success => (a.method = "POST" /\ sendMade /\ a.env.send = "ok")
            /\ a.method # "POST" => (r.status = 405 /\ ~r.success /\ ~sendMade)
            /\ (sendMade /\ a.env.send = "error") =>
                  /\ ~r.success
                  /\ r.pdfBase64 = att.pdfBase64
                  /\ r.filename = att.filename
            /\ threw => (~r.success /\ (r.pdfBase64 # NoValue <=> canBuild))

\* a POST whose send returned an error was answered 500 with the server-built PDF
C21_Witness ==
    /\ returned # << >>
    /\ args[1].method = "POST"
    /\ args[1].env.send = "error"
    /\ returned[1].reply.status = 500
    /\ returned[1].reply.pdfBase64 = "serverPdf"
    /\ returned[1].attachment.pdfBase64 = "serverPdf"

(***************************************************************************)
(* generateClientPdf step by step.  env names what its calls do: deps, the *)
(* dynamic imports resolve; jsPdf, new jsPDF(...) returns; failAt, the     *)
(* html2canvas capture that throws (0 the cover, s the view of step s,     *)
(* Null none); output, doc.output(...) returns.                            *)
(***************************************************************************)
GenEnvs == [deps : BOOLEAN, jsPdf : BOOLEAN, failAt : {Null} \cup (0..9), output : BOOLEAN]

\* the data-print marker of the view rendered when step = s: "step-k" is held as k,
\* Null is a view without marker.  The view of step 8 carries step-9; the view of
\* step 9 carries none
dataPrint(s) == IF s <= 7 THEN s ELSE IF s = 8 THEN 9 ELSE Null

\* document.querySelector(`[data-print="step-${s}"]`) finds an element while the
\* view of step s is the one rendered
liveEl(s) == dataPrint(s) = s

\* what one run did: its result, whether its overlay is still in the document, the
\* arguments of its setStep calls, and the canvases it added to the PDF (0 the cover)
Run(r, ov, setSteps, pages) ==
    [result |-> r, overlay |-> ov, setSteps |-> setSteps, pages |-> pages]

\* after the try block ran to its end (the finally has removed the overlay)
clientPdfOutput(env, setSteps, pages) ==
    IF env.output THEN Run(ClientPayload, FALSE, setSteps, pages)
                  ELSE Run(Thrown, FALSE, setSteps, pages)

\* clientPdfOutput with the step left where the loop ended: no setStep(prev)
RECURSIVE clientPdfLoop_NoRestore(_, _, _, _, _)
clientPdfLoop_NoRestore(env, prev, s, setSteps, pages) ==
    IF s > 9
    THEN clientPdfOutput(env, setSteps, pages)
    ELSE IF ~liveEl(s)
         THEN clientPdfLoop_NoRestore(env, prev, s + 1, Append(setSteps, s), pages)
         ELSE IF env.failAt = s
              THEN Run(NoPdf, FALSE, Append(setSteps, s), pages)
              ELSE clientPdfLoop_NoRestore(env, prev, s + 1, Append(setSteps, s),
                                           Append(pages, s))

\* for (const s of steps) { setStep(s); ...; if (!liveEl) continue; ... addCanvas }
\* setStep(prev), and the catch: setStep(prev); return null
RECURSIVE clientPdfLoop(_, _, _, _, _)
clientPdfLoop(env, prev, s, setSteps, pages) ==
    IF s > 9
    THEN clientPdfOutput(env, Append(setSteps, prev), pages)
    ELSE IF ~liveEl(s)
         THEN clientPdfLoop(env, prev, s + 1, Append(setSteps, s), pages)
         ELSE IF env.failAt = s
              THEN Run(NoPdf, FALSE, Append(Append(setSteps, s), prev), pages)
              ELSE clientPdfLoop(env, prev, s + 1, Append(setSteps, s), Append(pages, s))

\* generateClientPdf(data, summary, currentStep, setStep); inScope: the name
\* createPrintContainer resolves where generateClientPdf is declared
clientPdfRun(env, inScope, currentStep) ==
    IF ~env.deps THEN Run(NoPdf, FALSE, << >>, << >>)
    ELSE IF ~env.jsPdf THEN Run(Thrown, TRUE, << >>, << >>)
    ELSE IF ~inScope \/ env.failAt = 0 THEN Run(NoPdf, FALSE, << currentStep >>, << >>)
    ELSE clientPdfLoop(env, currentStep, 1, << >>, << 0 >>)

InitGen ==
    /\ args \in { << [env |-> e, currentStep |-> 9] >> : e \in GenEnvs }
    /\ returned = << >>
    /\ data = InitialFormData
    /\ edits = 0
    /\ scored = << >>
    /\ NavInit
    /\ PipeInit

\* generateClientPdf runs, as the code has it
RunClientPdf ==
    /\ args # << >>
    /\ returned = << >>
    /\ returned' = << clientPdfRun(args[1].env, createPrintContainerInScope,
                                   args[1].currentStep) >>
    /\ UNCHANGED << args, scoreVars, navVars, pipeVars >>

\* generateClientPdf runs where createPrintContainer resolves (a simulated scope:
\* the capture loop under test)
RunClientPdfInScope ==
    /\ args # << >>
    /\ returned = << >>
    /\ returned' = << clientPdfRun(args[1].env, TRUE, args[1].currentStep) >>
    /\ UNCHANGED << args, scoreVars, navVars, pipeVars >>

NextGen == RunClientPdf

SpecGen == InitGen /\ [][NextGen]_vars

NextGenSim == RunClientPdfInScope

SpecGenSim == InitGen /\ [][NextGenSim]_vars

\* the libraries load and every capture and the PDF output succeed
AllSucceeds(env) == env.deps /\ env.jsPdf /\ env.failAt = Null /\ env.output

\* C22: the HAVE_PDF state is reachable: when the PDF libraries load and every
\* html2canvas capture succeeds, generateClientPdf returns a {pdfBase64, filename}
\* payload instead of null, so the primary transport can be attempted at all.
C22_AllSucceedsReturnsPayload ==
    (returned # << >> /\ AllSucceeds(args[1].env)) => returned[1].result = ClientPayload

\* one of the calls of the run fails
SomeError(env) == ~AllSucceeds(env)

\* C23: generateClientPdf never throws: on any error at any point (library load,
\* jsPDF construction, print container, a capture, PDF output) it returns null, and
\* whenever it returns or fails the white full-screen overlay it added has been
\* removed from the document.
C23_NeverThrowsOverlayRemoved ==
    returned # << >> =>
        /\ returned[1].result # Thrown
        /\ SomeError(args[1].env) => returned[1].result = NoPdf
        /\ ~returned[1].overlay

\* C24: for every step s in 1..9 the client renderer brings step s into view and
\* captures it: the view rendered when step = s carries the data-print marker
\* step-s that the renderer looks up, so a successful run adds all nine step views
\* to the PDF in step order.
C24_AllNineStepsCaptured ==
    (returned # << >> /\ returned[1].result = ClientPayload) =>
        /\ \A s \in 1..9 : dataPrint(s) = s
        /\ returned[1].pages = << 0, 1, 2, 3, 4, 5, 6, 7, 8, 9 >>

\* the last element of a non-empty sequence
Last(seq) == seq[Len(seq)]

\* C25: whenever generateClientPdf resolves, with a payload or with null, the last
\* navigation step it has set is the step that was current when it was called: every
\* intermediate setStep(1..9) is undone before control returns to the submit handler.
C25_StepRestoredOnResolve ==
    (returned # << >> /\ returned[1].result \in {ClientPayload, NoPdf}) =>
        LET setSteps == returned[1].setSteps
        IN  setSteps # << >> =>
              /\ Last(setSteps) = args[1].currentStep
              /\ \A i \in 1..(Len(setSteps) - 1) : setSteps[i] = i

\* a run that stepped through the views 1..4, failed at the capture of step 4 and
\* went back to step 9
C25_Witness ==
    /\ returned # << >>
    /\ args[1].env.failAt = 4
    /\ returned[1].result = NoPdf
    /\ returned[1].setSteps = << 1, 2, 3, 4, 9 >>

(***************************************************************************)
(* Properties of the wizard and of sessions with several attempts.         *)
(***************************************************************************)
\* at least one Submit handler has run to its end
SomeAttemptFinished == attempts > 1 \/ outcome \notin {"none", "pending"}

\* C26: the completion screen (step 10) is reached only after a submission attempt
\* has run to a terminal outcome: in every reachable state with step = 10 at least
\* one submit handler has finished, whatever button presses and swipes led there.
C26_CompletionOnlyAfterAttempt ==
    step = 10 => SomeAttemptFinished

\* C27: the wizard never advances beyond step 1 and never starts a submission while
\* the required email or address field is empty, in both navigation modes.
C27_ContactRequiredToAdvance ==
    [][ /\ (step = 1 /\ step' > 1) => contactFilled
        /\ attempts' # attempts => contactFilled ]_vars

\* C28: after any sequence of submission attempts in one session, savedLocally is
\* true iff the most recent attempt ended without email delivery: an attempt that
\* ends DELIVERED leaves savedLocally false even when an earlier attempt had set it.
C28_SavedLocallyTracksLastAttempt ==
    Ended => (savedLocally <=> outcome # "DELIVERED")

\* C29: at most one submission attempt is in flight at any time: while isSending is
\* true neither the desktop nor the mobile Submit can start a second attempt, and
\* isSending is false again after every attempt, whatever its outcome.
C29_OneAttemptInFlight ==
    /\ [](isSending <=> pc # "idle")
    /\ [](pc = "idle" => inflight = {})
    /\ [][attempts' # attempts => (~isSending /\ pc = "idle" /\ isSending')]_vars

\* a second attempt has started after the first one ended, and is in flight on the
\* step that shows the Submit buttons
C29_Witness ==
    /\ attempts = 2
    /\ isSending
    /\ pc = "fetch"
    /\ step = 9

\* the sections of sectionFieldMap that list field f
SectionsOf(f) == { i \in DOMAIN sectionFieldMap : f \in Range(sectionFieldMap[i].fields) }

\* C30: the scoring configuration is consistent: every one of the 21 fields of
\* RATING_FIELDS belongs to exactly one section of sectionFieldMap, every field
\* named in sectionFieldMap is in RATING_FIELDS, and every field of
\* NEGATIVE_HIGH_FIELDS is in RATING_FIELDS, so the overall score and the section
\* scores are computed over the same set of fields.
C30_ScoringConfigurationConsistent ==
    /\ Len(RATING_FIELDS) = 21
    /\ Cardinality(RatingFieldSet) = 21
    /\ \A f \in RatingFieldSet : Cardinality(SectionsOf(f)) = 1
    /\ \A i \in DOMAIN sectionFieldMap :
          /\ Range(sectionFieldMap[i].fields) \subseteq RatingFieldSet
          /\ Cardinality(Range(sectionFieldMap[i].fields)) = Len(sectionFieldMap[i].fields)
    /\ NEGATIVE_HIGH_FIELDS \subseteq RatingFieldSet
    /\ scored # << >> =>
          NonNullFields(scored[1].normalized) =
              UNION { { f \in Range(sectionFieldMap[i].fields) :
                          normalizeScore(f, Get(data, f)) # Null } :
                      i \in DOMAIN sectionFieldMap }

\* the most favourable record scores 5.0 overall and 5.0 in each of the 7 sections
C30_Witness ==
    /\ scored # << >>
    /\ data = BestRecord
    /\ scored[1].overall = 50
    /\ \A i \in DOMAIN scored[1].sections : scored[1].sections[i].score = 50

=============================================================================
